---- MODULE Spec2Model ----
(***************************************************************************)
(* RedisAdapter (src/src/redis.adapter.ts): the adapter's flags, counters  *)
(* and asynchronous operations, the ioredis handle it drives (status,      *)
(* events, transparent key prefixing) and the store behind the handle      *)
(* (keys, values, expiry).                                                 *)
(*                                                                         *)
(* Keys are sequences of characters, so that prefixing is concatenation    *)
(* and pattern matching is a prefix test.  Time is in milliseconds.        *)
(***************************************************************************)
EXTENDS Integers, Sequences, FiniteSets, TLC

VARIABLES
    cfg,        \* adapterConfig: ownRedis, keyPrefix, defaultTTL; the handle's own keyPrefix option
    status,     \* redis.status of the handle
    closing,    \* the handle's manuallyClosing flag (set by quit / disconnect)
    isReady,    \* RedisAdapter.isReady
    isDestroyed,\* RedisAdapter.isDestroyed
    stats,      \* RedisAdapter.stats
    ops,        \* the asynchronous operations in flight, one record per slot
    dpc,        \* position of the one destroy() call that got past its guard
    store,      \* the store: raw key -> entry
    now,        \* the clock, in milliseconds
    hcalls,     \* how often the adapter called connect / quit / disconnect on the handle
    calls       \* how often destroy() and disconnect() were called on the adapter

vars == <<cfg, status, closing, isReady, isDestroyed, stats, ops, dpc, store, now, hcalls, calls>>

----------------------------------------------------------------------------
(* Bounds of the model *)

NumSlots == 2           \* operations that may be in flight together
MaxCmds == 2            \* operations started in one behaviour
MaxTicks == 3           \* clock steps in one behaviour
MaxErrors == 1          \* 'error' events in one behaviour
MaxReconnects == 1      \* 'reconnecting' events in one behaviour
MaxDestroyCalls == 2    \* destroy() calls in one behaviour
MaxDisconnectCalls == 1 \* disconnect() calls in one behaviour
PollStride == 25        \* polls of ensureConnected between two looks of the model at the handle

(* Program constants *)

SecMs == 1000           \* Math.ceil(effectiveTTL / 1000)
ChunkSize == 100        \* deleteMany: keys.length > 100, slice(i, i + 100)
MaxAttempts == 50       \* ensureConnected: attempts < 50

TickMs == SecMs \div 2

----------------------------------------------------------------------------
(* Keys, values, serialization *)

Nil == <<>>             \* null / undefined
NoTTL == -1             \* the ttl argument left out

NoPrefix == <<>>
PrefixT == <<"t">>
PrefixX == <<"x">>

IsPrefixOf(p, k) == Len(p) <= Len(k) /\ SubSeq(k, 1, Len(p)) = p

Min(a, b) == IF a < b THEN a ELSE b

CeilDivOneMore(a, b) == a \div b + 1

CeilDiv(a, b) == (a + b - 1) \div b

RECURSIVE SetToSeq(_)
SetToSeq(S) == IF S = {} THEN <<>>
               ELSE LET x == CHOOSE y \in S : TRUE
                    IN <<x>> \o SetToSeq(S \ {x})

Range(s) == {s[i] : i \in DOMAIN s}

\* The serialization port: a value becomes a tagged string form and back.
serialize(v) == <<"json">> \o v
deserialize(s) == Tail(s)

----------------------------------------------------------------------------
(* The store behind the handle.  An entry keeps the stored string, its     *)
(* expiry (0: none) and, for the record, when it was written and the ttl   *)
(* in milliseconds the adapter was asked for (0: none).  An entry past its *)
(* expiry stays in the map and reads as absent, as an expired key does.    *)

Entry(v, exp, at, ms) == [val |-> v, exp |-> exp, at |-> at, ms |-> ms]

Live(st, t, k) == k \in DOMAIN st /\ (st[k].exp = 0 \/ t < st[k].exp)

Put(st, k, e) == [x \in DOMAIN st \cup {k} |-> IF x = k THEN e ELSE st[x]]

Drop(st, K) == [x \in DOMAIN st \ K |-> st[x]]

RECURSIVE PutAll(_, _, _, _, _)
PutAll(st, ks, vs, exp, e) ==
    IF ks = <<>> THEN st
    ELSE PutAll(Put(st, Head(ks), Entry(Head(vs), exp, e.at, e.ms)), Tail(ks), Tail(vs), exp, e)

\* A command as the handle sends it: the keys are already prefixed.
Cmd(name, keys, vals, sec, ms, pipe) ==
    [name |-> name, keys |-> keys, vals |-> vals, sec |-> sec, ms |-> ms, pipe |-> pipe]

\* What the store does with one command at time t: the new store and the reply.
StoreAfter(st, t, c) ==
    CASE c.name = "SET"     -> Put(st, c.keys[1], Entry(c.vals[1], 0, t, c.ms))
      [] c.name = "SETEX"   -> Put(st, c.keys[1], Entry(c.vals[1], t + c.sec * SecMs, t, c.ms))
      [] c.name = "MSET"    -> PutAll(st, c.keys, c.vals, 0, [at |-> t, ms |-> 0])
      [] c.name = "DEL"     -> Drop(st, Range(c.keys))
      [] c.name = "FLUSHDB" -> Drop(st, DOMAIN st)
      [] OTHER              -> st

Reply(st, t, c) ==
    CASE c.name = "GET"     -> IF Live(st, t, c.keys[1]) THEN st[c.keys[1]].val ELSE Nil
      [] c.name = "MGET"    -> [i \in DOMAIN c.keys |-> IF Live(st, t, c.keys[i]) THEN st[c.keys[i]].val ELSE Nil]
      [] c.name = "DEL"     -> Cardinality({k \in Range(c.keys) : Live(st, t, k)})
      [] c.name = "EXISTS"  -> IF Live(st, t, c.keys[1]) THEN 1 ELSE 0
      [] c.name = "SCAN"    -> SetToSeq({k \in DOMAIN st : Live(st, t, k) /\ IsPrefixOf(c.keys[1], k)})
      [] c.name = "PING"    -> "PONG"
      [] OTHER              -> "OK"

----------------------------------------------------------------------------
(* Inputs *)

KA == <<"a">>
KB == <<"b">>
KTA == <<"t", "a">>
V1 == <<"v">>
V2 == <<"w">>

LongKeys(n) == [i \in 1..n |-> IF i <= ChunkSize THEN KA ELSE IF i <= 2 * ChunkSize THEN KTA ELSE KB]

\* The value the callers write under each key.
Written(k) == IF k = KA THEN V1 ELSE V2

Req(kind, key, keys, ents, val, ttl) ==
    [kind |-> kind, key |-> key, keys |-> keys, ents |-> ents, val |-> val, ttl |-> ttl]

Requests ==
    {Req("get", k, <<>>, <<>>, Nil, NoTTL) : k \in {KA, KTA}}
    \cup {Req("set", KA, <<>>, <<>>, Written(KA), t) : t \in {NoTTL, 0, TickMs, SecMs, SecMs + TickMs}}
    \cup {Req("set", KTA, <<>>, <<>>, Written(KTA), NoTTL)}
    \cup {Req("delete", k, <<>>, <<>>, Nil, NoTTL) : k \in {KA, KTA}}
    \cup {Req("exists", KA, <<>>, <<>>, Nil, NoTTL)}
    \cup {Req("clear", Nil, <<>>, <<>>, Nil, NoTTL)}
    \cup {Req("ping", Nil, <<>>, <<>>, Nil, NoTTL)}
    \cup {Req("mget", Nil, ks, <<>>, Nil, NoTTL) : ks \in {<<>>, <<KA, KB, KA>>, <<KTA, KA>>}}
    \cup {Req("mset", Nil, <<>>, es, Nil, t) : es \in {<<>>, << <<KA, Written(KA)>>, <<KB, Written(KB)>> >>}, t \in {NoTTL, 0, TickMs}}
    \cup {Req("deleteMany", Nil, ks, <<>>, Nil, NoTTL) :
            ks \in {<<>>, <<KA, KB>>, LongKeys(ChunkSize), LongKeys(ChunkSize + 1), LongKeys(2 * ChunkSize + 1)}}

\* One request of every kind, and the empty batches.
CoreRequests ==
    {Req("get", KA, <<>>, <<>>, Nil, NoTTL),
     Req("set", KA, <<>>, <<>>, Written(KA), NoTTL),
     Req("delete", KA, <<>>, <<>>, Nil, NoTTL),
     Req("exists", KA, <<>>, <<>>, Nil, NoTTL),
     Req("clear", Nil, <<>>, <<>>, Nil, NoTTL),
     Req("ping", Nil, <<>>, <<>>, Nil, NoTTL),
     Req("mget", Nil, <<>>, <<>>, Nil, NoTTL),
     Req("mget", Nil, <<KA, KB>>, <<>>, Nil, NoTTL),
     Req("mset", Nil, <<>>, <<>>, Nil, NoTTL),
     Req("mset", Nil, <<>>, << <<KA, Written(KA)>> >>, Nil, TickMs),
     Req("deleteMany", Nil, <<>>, <<>>, Nil, NoTTL),
     Req("deleteMany", Nil, <<KA, KB>>, <<>>, Nil, NoTTL)}

\* The store as the adapter finds it: keys of its own namespace and of co-tenants.
SeedStore ==
    [k \in {KA, KB, KTA, PrefixX \o KTA} |-> Entry(serialize(IF k = KB THEN V2 ELSE V1), 0, 0, 0)]

----------------------------------------------------------------------------
(* Operations in flight *)

IdleOp == [pc |-> "idle", kind |-> "none", key |-> Nil, keys |-> <<>>, ents |-> <<>>, val |-> Nil,
           ttl |-> NoTTL, att |-> 0, cmds |-> <<>>, got |-> <<>>, res |-> Nil, err |-> <<>>,
           afterDestroy |-> FALSE, at |-> 0, sent |-> 0, timeout |-> 0, saw |-> [has |-> FALSE, e |-> Entry(Nil, 0, 0, 0)]]

Slots == 1..NumSlots

\* Error messages, as sequences of their parts.
AdapterTag == "[RedisAdapter]"
DestroyedError == <<AdapterTag, "Adapter has been destroyed">>
ConnectionFailed(cause) == <<AdapterTag, "Connection failed:">> \o cause
ConnectionTimeout(st) == <<"Connection timeout. Status:", st>>
ConnectionClosed == <<"Connection is closed.">>
StoreError == <<"ERR store error">>
OperationFailedWithoutCause(operation, cause) == <<AdapterTag, operation, "failed">>

OperationFailed(operation, cause) == <<AdapterTag, operation, "failed:">> \o cause

----------------------------------------------------------------------------
(* Configuration and construction *)

Config(own, prefix, ttl, hprefix) ==
    [ownRedis |-> own, keyPrefix |-> prefix, defaultTTL |-> ttl, hPrefix |-> hprefix]

\* An owned handle is built with the adapter's keyPrefix; a supplied handle
\* keeps the options its supplier gave it.
Configs ==
    {Config(TRUE, p, d, p) : p \in {NoPrefix, PrefixT}, d \in {0, SecMs + TickMs}}
    \cup {Config(FALSE, PrefixT, 0, h) : h \in {NoPrefix, PrefixX}}

ZeroStats == [commands |-> [total |-> 0, failed |-> 0, successful |-> 0],
              operations |-> [gets |-> 0, sets |-> 0, deletes |-> 0, batch |-> 0],
              connection |-> [reconnects |-> 0, errors |-> 0]]

\* A constructor that connects the handle it builds.
initializeRedisEager(c, st) ==
    /\ cfg = c
    /\ status = (IF c.ownRedis THEN "connecting" ELSE st)
    /\ isReady = (~c.ownRedis /\ st = "ready")
    /\ closing = FALSE

initializeRedis(c, st) ==
    /\ cfg = c
    /\ status = (IF c.ownRedis THEN "wait" ELSE st)
    /\ isReady = (~c.ownRedis /\ st = "ready")
    /\ closing = FALSE

Constructed(C) ==
    /\ \E c \in C, st \in {"wait", "ready"} : initializeRedis(c, st)
    /\ isDestroyed = FALSE
    /\ stats = ZeroStats
    /\ ops = [i \in Slots |-> IdleOp]
    /\ dpc = "idle"
    /\ store = SeedStore
    /\ now = 0
    /\ hcalls = [connect |-> 0, quit |-> 0, disconnect |-> 0]
    /\ calls = [destroy |-> 0, disconnect |-> 0]

\* An owned and a supplied handle, one configuration each.
Init == Constructed({Config(TRUE, PrefixT, 0, PrefixT), Config(FALSE, PrefixT, 0, NoPrefix)})

\* Every configuration of prefix, default TTL and handle.
InitData == Constructed(Configs)

----------------------------------------------------------------------------
(* ensureConnected and executeCommand *)

EnsureEntryWithoutDestroyedCheck(destroyed, st) ==
    IF st = "ready" THEN "checked"
    ELSE IF st = "wait" THEN "connecting"
    ELSE "polling"

\* A readiness check that calls connect() whenever the handle is not ready.
EnsureEntryAlwaysConnects(destroyed, st) ==
    IF destroyed THEN "throw"
    ELSE IF st = "ready" THEN "checked"
    ELSE "connecting"

\* ensureConnected up to its first suspension: what it does given the flags.
EnsureEntry(destroyed, st) ==
    IF destroyed THEN "throw"
    ELSE IF st = "ready" THEN "checked"
    ELSE IF st = "wait" THEN "connecting"
    ELSE "polling"

Succeed(o, res) == [o EXCEPT !.pc = "done", !.res = res, !.at = now]

Fail(o, cause) == [o EXCEPT !.pc = "done", !.err = OperationFailed(o.kind, cause), !.at = now]

\* The probes: isHealthy, getHealthStatus and getStatistics call ensureConnected
\* and the store themselves, inside a try of their own.
Probes == {"isHealthy", "getHealthStatus", "getStatistics"}

LatencyLimit == 1000

\* getHealthStatus returns { healthy, connected: this.isReady, latency, lastCheck, error }
HealthStatus(healthy, connected, hasLatency, latency, error) ==
    [healthy |-> healthy, connected |-> connected, hasLatency |-> hasLatency,
     latency |-> latency, error |-> error]

\* getStatistics returns the counters and the handle's status, with or without memory
Statistics(connected, readyState, s, hasMemory, memory) ==
    [connected |-> connected, readyState |-> readyState, commands |-> s.commands,
     operations |-> s.operations, hasMemory |-> hasMemory, memory |-> memory]

NoMemory == [used |-> 0, peak |-> 0]

\* A probe that lets the error through.
CaughtRethrown(o, cause) == [o EXCEPT !.pc = "done", !.err = cause]

\* The catch block of a probe: false, a snapshot with the error, the counters alone.
Caught(o, cause) ==
    [o EXCEPT !.pc = "done",
              !.res = CASE o.kind = "isHealthy" -> FALSE
                        [] o.kind = "getHealthStatus" -> HealthStatus(FALSE, isReady, FALSE, 0, cause)
                        [] o.kind = "getStatistics" -> Statistics(FALSE, status, stats, FALSE, NoMemory)]

\* An error thrown inside an operation or a probe reaches the catch block around it.
Thrown(o, cause) == IF o.kind \in Probes THEN Caught(o, cause) ELSE Fail(o, cause)

CountSuccessAsFailure(s) == [s EXCEPT !.commands.failed = @ + 1]

CountSuccess(s) == [s EXCEPT !.commands.successful = @ + 1]

CountFailureTwice(s) == [s EXCEPT !.commands.failed = @ + 2]

CountFailure(s) == [s EXCEPT !.commands.failed = @ + 1]

CountThrown(s, o) == IF o.kind \in Probes THEN s ELSE CountFailure(s)

\* A caller invokes an operation: executeCommand counts it and enters ensureConnected.
Start(i, r) ==
    /\ ops[i].pc = "idle"
    /\ \A j \in Slots : j < i => ops[j].pc # "idle"
    /\ stats.commands.total < MaxCmds
    /\ LET e == EnsureEntry(isDestroyed, status)
           o == [IdleOp EXCEPT !.kind = r.kind, !.key = r.key, !.keys = r.keys, !.ents = r.ents,
                               !.val = r.val, !.ttl = r.ttl, !.afterDestroy = isDestroyed]
           counted == [stats EXCEPT !.commands.total = @ + 1]
       IN /\ ops' = [ops EXCEPT ![i] = IF e = "throw" THEN Fail(o, DestroyedError)
                                        ELSE [o EXCEPT !.pc = e]]
          /\ stats' = IF e = "throw" THEN CountFailure(counted) ELSE counted
          /\ status' = IF e = "connecting" THEN "connecting" ELSE status
          /\ hcalls' = IF e = "connecting" THEN [hcalls EXCEPT !.connect = @ + 1] ELSE hcalls
    /\ UNCHANGED <<cfg, closing, isReady, isDestroyed, dpc, store, now, calls>>

\* redis.connect() resolved: the loop and the final test look at the status once more.
AfterConnect(i) ==
    /\ ops[i].pc = "connected"
    /\ ops' = [ops EXCEPT ![i].pc = IF status = "ready" THEN "checked" ELSE "polling"]
    /\ UNCHANGED <<cfg, status, closing, isReady, isDestroyed, stats, dpc, store, now, hcalls, calls>>

\* redis.connect() rejected: ensureConnected wraps the cause, executeCommand wraps it again.
AfterRefused(i) ==
    /\ ops[i].pc = "refused"
    /\ ops' = [ops EXCEPT ![i] = Thrown(@, ConnectionFailed(ConnectionClosed))]
    /\ stats' = CountThrown(stats, ops[i])
    /\ UNCHANGED <<cfg, status, closing, isReady, isDestroyed, dpc, store, now, hcalls, calls>>

\* A readiness loop without its attempt budget.
PollWithoutLimit(i) ==
    /\ ops[i].pc = "polling"
    /\ IF status = "ready"
       THEN ops' = [ops EXCEPT ![i].pc = "checked"]
       ELSE ops' = [ops EXCEPT ![i].att = Min(@ + PollStride, MaxAttempts)]
    /\ UNCHANGED <<cfg, status, closing, isReady, isDestroyed, stats, dpc, store, now, hcalls, calls>>

\* The readiness loop: PollStride timers of 100 ms fire, then the status is tested.
Poll(i) ==
    /\ ops[i].pc = "polling"
    /\ LET att == Min(ops[i].att + PollStride, MaxAttempts)
       IN IF status = "ready"
          THEN /\ ops' = [ops EXCEPT ![i].pc = "checked", ![i].att = att]
               /\ stats' = stats
          ELSE IF att < MaxAttempts
          THEN /\ ops' = [ops EXCEPT ![i].att = att]
               /\ stats' = stats
          ELSE /\ ops' = [ops EXCEPT ![i] = Thrown([@ EXCEPT !.att = att],
                                                   ConnectionFailed(ConnectionTimeout(status)))]
               /\ stats' = CountThrown(stats, ops[i])
    /\ UNCHANGED <<cfg, status, closing, isReady, isDestroyed, dpc, store, now, hcalls, calls>>

----------------------------------------------------------------------------
(* The operations: what each sends once the connection is ensured, and what *)
(* it returns for the reply.  An operation's first part yields              *)
(* [cmds, early, res]: the commands it sends, or an early return.           *)

\* ioredis prefixes the key arguments of a command with the handle's keyPrefix.
Prefixed(k) == cfg.hPrefix \o k

Sends(cmds) == [cmds |-> cmds, early |-> FALSE, res |-> Nil]

Returns(res) == [cmds |-> <<>>, early |-> TRUE, res |-> res]

\* ttl || defaultTTL: an explicit 0 taken for an omitted ttl.
EffectiveTTLZeroAsOmitted(ttl, default) ==
    IF ttl # NoTTL /\ ttl # 0 THEN ttl ELSE IF default # 0 THEN default ELSE NoTTL

\* ttl ?? (defaultTTL || undefined)
EffectiveTTL(ttl, default) ==
    IF ttl # NoTTL THEN ttl ELSE IF default # 0 THEN default ELSE NoTTL

TtlSecondsRoundedDown(ms) == ms \div SecMs

TtlSeconds(ms) == CeilDiv(ms, SecMs)

get(o) == Sends(<<Cmd("GET", <<Prefixed(o.key)>>, <<>>, 0, 0, FALSE)>>)

getResult(reply) == IF reply = Nil THEN Nil ELSE deserialize(reply)

set(o) ==
    LET serialized == serialize(o.val)
        effectiveTTL == EffectiveTTL(o.ttl, cfg.defaultTTL)
    IN IF effectiveTTL > 0
       THEN Sends(<<Cmd("SETEX", <<Prefixed(o.key)>>, <<serialized>>, TtlSeconds(effectiveTTL), effectiveTTL, FALSE)>>)
       ELSE Sends(<<Cmd("SET", <<Prefixed(o.key)>>, <<serialized>>, 0, 0, FALSE)>>)

delete(o) == Sends(<<Cmd("DEL", <<Prefixed(o.key)>>, <<>>, 0, 0, FALSE)>>)

deleteResult(reply) == reply > 0

exists(o) == Sends(<<Cmd("EXISTS", <<Prefixed(o.key)>>, <<>>, 0, 0, FALSE)>>)

existsResult(reply) == reply > 0

\* clear: a configured prefix is scanned for (the pattern of SCAN is not a key
\* argument: the handle does not prefix it); without one the database is flushed.
clear(o) ==
    IF cfg.keyPrefix # NoPrefix
    THEN Sends(<<Cmd("SCAN", <<cfg.keyPrefix>>, <<>>, 0, 0, FALSE)>>)
    ELSE Sends(<<Cmd("FLUSHDB", <<>>, <<>>, 0, 0, FALSE)>>)

\* clear, after the scan: the keys found go into one DEL of a pipeline, whose
\* key arguments the handle prefixes like any other's.
clearPipeline(keys) ==
    IF Len(keys) > 0
    THEN <<Cmd("DEL", [j \in DOMAIN keys |-> Prefixed(keys[j])], <<>>, 0, 0, TRUE)>>
    ELSE <<>>

mgetWithoutEarlyReturn(o) ==
    Sends(<<Cmd("MGET", [j \in DOMAIN o.keys |-> Prefixed(o.keys[j])], <<>>, 0, 0, FALSE)>>)

mget(o) ==
    IF Len(o.keys) = 0 THEN Returns(<<>>)
    ELSE Sends(<<Cmd("MGET", [j \in DOMAIN o.keys |-> Prefixed(o.keys[j])], <<>>, 0, 0, FALSE)>>)

mgetResultWithoutAbsent(values) ==
    LET present == SetToSeq({j \in DOMAIN values : values[j] # Nil})
    IN [n \in DOMAIN present |-> deserialize(values[present[n]])]

mgetResult(values) == [j \in DOMAIN values |-> IF values[j] = Nil THEN Nil ELSE deserialize(values[j])]

mset(o) ==
    LET effectiveTTL == EffectiveTTL(o.ttl, cfg.defaultTTL)
        keys == [j \in DOMAIN o.ents |-> Prefixed(o.ents[j][1])]
        vals == [j \in DOMAIN o.ents |-> serialize(o.ents[j][2])]
    IN IF Len(o.ents) = 0 THEN Returns(Nil)
       ELSE IF effectiveTTL > 0
       THEN Sends([j \in DOMAIN o.ents |->
                     Cmd("SETEX", <<keys[j]>>, <<vals[j]>>, TtlSeconds(effectiveTTL), effectiveTTL, TRUE)])
       ELSE Sends(<<Cmd("MSET", keys, vals, 0, 0, FALSE)>>)

RECURSIVE Chunks(_)
Chunks(keys) ==
    IF keys = <<>> THEN <<>>
    ELSE LET n == Min(ChunkSize, Len(keys))
         IN <<SubSeq(keys, 1, n)>> \o Chunks(SubSeq(keys, n + 1, Len(keys)))

deleteMany(o) ==
    IF Len(o.keys) = 0 THEN Returns(FALSE)
    ELSE IF Len(o.keys) > ChunkSize
    THEN LET chunks == Chunks(o.keys)
         IN Sends([c \in DOMAIN chunks |->
                     Cmd("DEL", [j \in DOMAIN chunks[c] |-> Prefixed(chunks[c][j])], <<>>, 0, 0, TRUE)])
    ELSE Sends(<<Cmd("DEL", [j \in DOMAIN o.keys |-> Prefixed(o.keys[j])], <<>>, 0, 0, FALSE)>>)

\* results.some(([err, result]) => !err && Number(result) > 0)
deleteManyPipelineResult(results) ==
    \E j \in DOMAIN results : ~results[j].err /\ results[j].reply > 0

ping(o) == Sends(<<Cmd("PING", <<>>, <<>>, 0, 0, FALSE)>>)

FirstPart(o) ==
    CASE o.kind = "get" -> get(o)
      [] o.kind = "set" -> set(o)
      [] o.kind = "delete" -> delete(o)
      [] o.kind = "exists" -> exists(o)
      [] o.kind = "clear" -> clear(o)
      [] o.kind = "mget" -> mget(o)
      [] o.kind = "mset" -> mset(o)
      [] o.kind = "deleteMany" -> deleteMany(o)
      [] o.kind = "ping" -> ping(o)

ResultOf(o, reply) ==
    CASE o.kind = "get" -> getResult(reply)
      [] o.kind = "delete" -> deleteResult(reply)
      [] o.kind = "exists" -> existsResult(reply)
      [] o.kind = "mget" -> mgetResult(reply)
      [] o.kind = "deleteMany" -> deleteResult(reply)
      [] o.kind = "ping" -> reply
      [] OTHER -> Nil

\* this.stats.operations.<counter>++ at the start of the operation's own part
CountOperationWithExists(s, kind) ==
    IF kind \in {"get", "exists"} THEN [s EXCEPT !.operations.gets = @ + 1] ELSE s

CountOperation(s, kind) ==
    CASE kind = "get" -> [s EXCEPT !.operations.gets = @ + 1]
      [] kind = "set" -> [s EXCEPT !.operations.sets = @ + 1]
      [] kind = "delete" -> [s EXCEPT !.operations.deletes = @ + 1]
      [] kind \in {"mget", "mset", "deleteMany"} -> [s EXCEPT !.operations.batch = @ + 1]
      [] OTHER -> s

----------------------------------------------------------------------------
(* executeCommand, after ensureConnected returned *)

\* The operation's own part runs up to its first store call.
Issue(i) ==
    /\ ops[i].pc = "checked"
    /\ LET o == ops[i]
           f == FirstPart(o)
           counted == CountOperation(stats, o.kind)
       IN IF f.early
          THEN /\ ops' = [ops EXCEPT ![i] = Succeed(o, f.res)]
               /\ stats' = CountSuccess(counted)
          ELSE /\ ops' = [ops EXCEPT ![i].cmds = f.cmds,
                                     ![i].pc = IF f.cmds[1].pipe THEN "piping" ELSE "awaiting"]
               /\ stats' = counted
    /\ UNCHANGED <<cfg, status, closing, isReady, isDestroyed, dpc, store, now, hcalls, calls>>

Saw(st, k) == IF k \in DOMAIN st THEN [has |-> TRUE, e |-> st[k]]
              ELSE [has |-> FALSE, e |-> Entry(Nil, 0, 0, 0)]

\* The store answers a single command.
RespondOk(i) ==
    /\ ops[i].pc = "awaiting"
    /\ status = "ready"
    /\ LET o == ops[i]
           c == o.cmds[Len(o.cmds)]
           reply == Reply(store, now, c)
           more == clearPipeline(reply)
       IN IF c.name = "SCAN" /\ more # <<>>
          THEN /\ ops' = [ops EXCEPT ![i].cmds = @ \o more, ![i].got = reply, ![i].pc = "piping"]
               /\ UNCHANGED <<stats, store>>
          ELSE /\ ops' = [ops EXCEPT ![i] = Succeed([o EXCEPT !.got = <<reply>>,
                                                               !.saw = IF c.name = "GET" THEN Saw(store, c.keys[1]) ELSE @],
                                                    ResultOf(o, reply))]
               /\ stats' = CountSuccess(stats)
               /\ store' = StoreAfter(store, now, c)
    /\ UNCHANGED <<cfg, status, closing, isReady, isDestroyed, dpc, now, hcalls, calls>>

\* The store after the commands 1..upto of a pipeline, those in F having failed.
RECURSIVE PipeStore(_, _, _, _, _)
PipeStore(st, t, cs, upto, F) ==
    IF upto = 0 THEN st
    ELSE LET before == PipeStore(st, t, cs, upto - 1, F)
         IN IF cs[upto].pipe /\ upto \notin F THEN StoreAfter(before, t, cs[upto]) ELSE before

\* pipeline.exec() resolves with one [err, result] per command.
PipeResults(st, t, cs, F) ==
    LET P == {j \in DOMAIN cs : cs[j].pipe}
        first == CHOOSE j \in P : \A k \in P : j <= k
    IN [n \in 1..Cardinality(P) |->
          LET j == first + n - 1
          IN IF j \in F THEN [err |-> TRUE, reply |-> 0]
             ELSE [err |-> FALSE, reply |-> Reply(PipeStore(st, t, cs, j - 1, F), t, cs[j])]]

PipelineResult(o, results) ==
    IF o.kind = "deleteMany" THEN deleteManyPipelineResult(results) ELSE Nil

\* pipeline.exec() resolves: each command of the pipeline succeeded or failed on its own.
RespondPipe(i, F) ==
    /\ ops[i].pc = "piping"
    /\ status = "ready"
    /\ F \subseteq {j \in DOMAIN ops[i].cmds : ops[i].cmds[j].pipe}
    /\ LET o == ops[i]
           results == PipeResults(store, now, o.cmds, F)
       IN /\ ops' = [ops EXCEPT ![i] = Succeed([o EXCEPT !.got = results], PipelineResult(o, results))]
          /\ store' = PipeStore(store, now, o.cmds, Len(o.cmds), F)
    /\ stats' = CountSuccess(stats)
    /\ UNCHANGED <<cfg, status, closing, isReady, isDestroyed, dpc, now, hcalls, calls>>

\* A store call rejects (a server error, a timeout, a closed connection).
RespondFail(i) ==
    /\ ops[i].pc \in {"awaiting", "piping"}
    /\ ops' = [ops EXCEPT ![i] = Fail(@, StoreError)]
    /\ stats' = CountFailure(stats)
    /\ UNCHANGED <<cfg, status, closing, isReady, isDestroyed, dpc, store, now, hcalls, calls>>

\* The caller has its result; the slot is free again.
Retire(i) ==
    /\ ops[i].pc = "done"
    /\ ops' = [ops EXCEPT ![i] = IdleOp]
    /\ UNCHANGED <<cfg, status, closing, isReady, isDestroyed, stats, dpc, store, now, hcalls, calls>>

\* A caller invokes a probe: no command counter moves, ensureConnected runs first.
\* getHealthStatus takes its start time before it, isHealthy after it.
StartProbe(i, kind) ==
    /\ ops[i].pc = "idle"
    /\ LET e == EnsureEntry(isDestroyed, status)
           o == [IdleOp EXCEPT !.kind = kind, !.afterDestroy = isDestroyed, !.at = now]
       IN /\ ops' = [ops EXCEPT ![i] = IF e = "throw" THEN Caught(o, DestroyedError)
                                        ELSE [o EXCEPT !.pc = e]]
          /\ status' = IF e = "connecting" THEN "connecting" ELSE status
          /\ hcalls' = IF e = "connecting" THEN [hcalls EXCEPT !.connect = @ + 1] ELSE hcalls
    /\ UNCHANGED <<cfg, closing, isReady, isDestroyed, stats, dpc, store, now, calls>>

\* The probe's own store call: PING, or INFO memory for the statistics.
ProbeIssue(i) ==
    /\ ops[i].pc = "checked"
    /\ ops[i].kind \in Probes
    /\ ops' = [ops EXCEPT ![i].pc = "awaiting",
                          ![i].at = IF ops[i].kind = "isHealthy" THEN now ELSE @,
                          ![i].sent = now,
                          ![i].cmds = IF ops[i].kind = "getStatistics"
                                      THEN <<Cmd("INFO", <<>>, <<>>, 0, 0, FALSE)>>
                                      ELSE <<Cmd("PING", <<>>, <<>>, 0, 0, FALSE)>>]
    /\ UNCHANGED <<cfg, status, closing, isReady, isDestroyed, stats, dpc, store, now, hcalls, calls>>

\* A verdict that ignores the latency.
HealthyAnyLatency(result, latency) == result = "PONG"

\* result === 'PONG' && latency < 1000
Healthy(result, latency) == result = "PONG" /\ latency < LatencyLimit

\* The memory section of INFO as the store reports it, and what the two matches read from it.
InfoMemory == [used_memory |-> 1, used_memory_peak |-> 2]

ParsedMemory(info) == [used |-> info.used_memory, peak |-> info.used_memory_peak]

\* The store answers the probe's call.
ProbeRespondOk(i) ==
    /\ ops[i].pc = "awaiting"
    /\ ops[i].kind \in Probes
    /\ status = "ready"
    /\ LET o == ops[i]
           reply == IF o.kind = "getStatistics" THEN InfoMemory ELSE Reply(store, now, o.cmds[1])
           latency == now - o.at
       IN ops' = [ops EXCEPT ![i] =
                    [o EXCEPT !.pc = "done", !.got = <<reply>>,
                              !.res = CASE o.kind = "isHealthy" -> Healthy(reply, latency)
                                        [] o.kind = "getHealthStatus" ->
                                             HealthStatus(Healthy(reply, latency), isReady, TRUE, latency, <<>>)
                                        [] o.kind = "getStatistics" ->
                                             Statistics(isReady, status, stats, TRUE, ParsedMemory(reply))]]
    /\ UNCHANGED <<cfg, status, closing, isReady, isDestroyed, stats, dpc, store, now, hcalls, calls>>

\* The probe's call rejects: the catch block answers.
ProbeRespondFail(i) ==
    /\ ops[i].pc = "awaiting"
    /\ ops[i].kind \in Probes
    /\ ops' = [ops EXCEPT ![i] = Caught(@, StoreError)]
    /\ UNCHANGED <<cfg, status, closing, isReady, isDestroyed, stats, dpc, store, now, hcalls, calls>>

\* waitUntilReady(timeout): the timeouts a caller passes.
WaitTimeouts == {0, TickMs}

WaitTimeoutError(st) == <<AdapterTag, "Timeout waiting for Redis to be ready. Current status:", st>>

\* A check that resolves on a ready handle whatever the adapter's life.
checkReadyIgnoringDestroyed(startTime, timeout) ==
    IF status = "ready" THEN "resolve"
    ELSE IF now - startTime > timeout THEN "reject"
    ELSE "again"

\* checkReady: resolve, reject or look again in 100 ms.
checkReady(startTime, timeout) ==
    IF status = "ready" /\ ~isDestroyed THEN "resolve"
    ELSE IF now - startTime > timeout THEN "reject"
    ELSE "again"

Settled(o, outcome) ==
    CASE outcome = "resolve" -> [o EXCEPT !.pc = "done", !.res = <<"resolved">>]
      [] outcome = "reject" -> [o EXCEPT !.pc = "done", !.err = WaitTimeoutError(status)]
      [] OTHER -> [o EXCEPT !.pc = "waiting"]

\* waitUntilReady: the start time is taken and checkReady runs at once.  (A
\* wait starts while the clock of the model still has its timeout ahead.)
waitUntilReady(i, timeout) ==
    /\ ops[i].pc = "idle"
    /\ now + timeout < MaxTicks * TickMs
    /\ LET o == [IdleOp EXCEPT !.kind = "waitUntilReady", !.timeout = timeout, !.at = now,
                               !.afterDestroy = isDestroyed]
       IN ops' = [ops EXCEPT ![i] = Settled(o, checkReady(now, timeout))]
    /\ UNCHANGED <<cfg, status, closing, isReady, isDestroyed, stats, dpc, store, now, hcalls, calls>>

\* The timer fires and checkReady settles the promise (a check that only sets
\* the timer again changes nothing).
WaitCheck(i) ==
    /\ ops[i].pc = "waiting"
    /\ checkReady(ops[i].at, ops[i].timeout) # "again"
    /\ ops' = [ops EXCEPT ![i] = Settled(@, checkReady(@.at, @.timeout))]
    /\ UNCHANGED <<cfg, status, closing, isReady, isDestroyed, stats, dpc, store, now, hcalls, calls>>

\* Time passes while something is awaited: a connection, a timer, a reply.  The
\* continuation of a settled promise runs before any time has passed.
Tick ==
    /\ now < MaxTicks * TickMs
    /\ \A i \in Slots : ops[i].pc \notin {"connected", "refused", "checked"}
    /\ now' = now + TickMs
    /\ UNCHANGED <<cfg, status, closing, isReady, isDestroyed, stats, ops, dpc, store, hcalls, calls>>

----------------------------------------------------------------------------
(* The handle: its status, and the events the adapter listens to *)

PromiseSettled(os, to) == [i \in Slots |-> IF os[i].pc = "connecting" THEN [os[i] EXCEPT !.pc = to] ELSE os[i]]

\* 'connect' and 'ready': this.isReady = true; redis.connect() resolves.
HandleReady ==
    /\ status = "connecting"
    /\ status' = "ready"
    /\ isReady' = TRUE
    /\ ops' = PromiseSettled(ops, "connected")
    /\ UNCHANGED <<cfg, closing, isDestroyed, stats, dpc, store, now, hcalls, calls>>

\* The connection closes, refused, lost or ended by quit / disconnect; redis.connect() rejects.
HandleClose ==
    /\ status \in {"connecting", "ready"}
    /\ status' = "close"
    /\ ops' = PromiseSettled(ops, "refused")
    /\ UNCHANGED <<cfg, closing, isReady, isDestroyed, stats, dpc, store, now, hcalls, calls>>

\* 'error': stats.connection.errors++ and stats.commands.failed++
HandleError ==
    /\ status \notin {"wait", "end"}
    /\ stats.connection.errors < MaxErrors
    /\ stats' = [stats EXCEPT !.connection.errors = @ + 1, !.commands.failed = @ + 1]
    /\ UNCHANGED <<cfg, status, closing, isReady, isDestroyed, ops, dpc, store, now, hcalls, calls>>

\* 'reconnecting': stats.connection.reconnects++
HandleReconnecting ==
    /\ status = "close"
    /\ ~closing
    /\ stats.connection.reconnects < MaxReconnects
    /\ status' = "reconnecting"
    /\ stats' = [stats EXCEPT !.connection.reconnects = @ + 1]
    /\ UNCHANGED <<cfg, closing, isReady, isDestroyed, ops, dpc, store, now, hcalls, calls>>

HandleRetry ==
    /\ status = "reconnecting"
    /\ ~closing
    /\ status' = "connecting"
    /\ UNCHANGED <<cfg, closing, isReady, isDestroyed, stats, ops, dpc, store, now, hcalls, calls>>

\* 'end': this.isReady = false
HandleEnd ==
    /\ status = "close"
    /\ status' = "end"
    /\ closing' = FALSE
    /\ isReady' = FALSE
    /\ UNCHANGED <<cfg, isDestroyed, stats, ops, dpc, store, now, hcalls, calls>>

\* redis.disconnect(): the handle closes by hand; one that never connected ends at once.
DisconnectedStatus(st) == IF st = "wait" THEN "end" ELSE st

DisconnectedClosing(st) == st \notin {"wait", "end"}

\* redis.quit(): QUIT is a command like any other: a handle that never connected
\* connects to send it, an ended one rejects it.
QuitStatus(st) == IF st = "wait" THEN "connecting" ELSE st

----------------------------------------------------------------------------
(* Resource management *)

disconnect ==
    /\ calls.disconnect < MaxDisconnectCalls
    /\ calls' = [calls EXCEPT !.disconnect = @ + 1]
    /\ IF cfg.ownRedis /\ status # "end"
       THEN /\ hcalls' = [hcalls EXCEPT !.disconnect = @ + 1]
            /\ status' = DisconnectedStatus(status)
            /\ closing' = DisconnectedClosing(status)
            /\ isReady' = FALSE
       ELSE UNCHANGED <<hcalls, status, closing, isReady>>
    /\ UNCHANGED <<cfg, isDestroyed, stats, ops, dpc, store, now>>

destroyWithoutGuard ==
    /\ calls.destroy < MaxDestroyCalls
    /\ calls' = [calls EXCEPT !.destroy = @ + 1]
    /\ isDestroyed' = TRUE
    /\ isReady' = FALSE
    /\ IF cfg.ownRedis
       THEN /\ hcalls' = [hcalls EXCEPT !.quit = @ + 1]
            /\ status' = QuitStatus(status)
            /\ closing' = (status # "end")
            /\ dpc' = IF status = "end" THEN "rejected" ELSE "quitting"
       ELSE /\ dpc' = "done"
            /\ UNCHANGED <<hcalls, status, closing>>
    /\ UNCHANGED <<cfg, stats, ops, store, now>>

destroyWithoutOwnership ==
    /\ calls.destroy < MaxDestroyCalls
    /\ calls' = [calls EXCEPT !.destroy = @ + 1]
    /\ IF isDestroyed
       THEN UNCHANGED <<isDestroyed, isReady, hcalls, status, closing, dpc>>
       ELSE /\ isDestroyed' = TRUE
            /\ isReady' = FALSE
            /\ hcalls' = [hcalls EXCEPT !.quit = @ + 1]
            /\ status' = QuitStatus(status)
            /\ closing' = (status # "end")
            /\ dpc' = IF status = "end" THEN "rejected" ELSE "quitting"
    /\ UNCHANGED <<cfg, stats, ops, store, now>>

\* A destroy() that starts the quit without having set its flags.
destroyQuitFirst ==
    /\ calls.destroy < MaxDestroyCalls
    /\ calls' = [calls EXCEPT !.destroy = @ + 1]
    /\ IF dpc # "idle"
       THEN UNCHANGED <<hcalls, status, closing, dpc>>
       ELSE IF cfg.ownRedis
            THEN /\ hcalls' = [hcalls EXCEPT !.quit = @ + 1]
                 /\ status' = QuitStatus(status)
                 /\ closing' = (status # "end")
                 /\ dpc' = IF status = "end" THEN "rejected" ELSE "quitting"
            ELSE /\ dpc' = "done"
                 /\ UNCHANGED <<hcalls, status, closing>>
    /\ UNCHANGED <<cfg, isDestroyed, isReady, stats, ops, store, now>>

\* destroy(), up to its await of redis.quit()
destroy ==
    /\ calls.destroy < MaxDestroyCalls
    /\ calls' = [calls EXCEPT !.destroy = @ + 1]
    /\ IF isDestroyed
       THEN UNCHANGED <<isDestroyed, isReady, hcalls, status, closing, dpc>>
       ELSE /\ isDestroyed' = TRUE
            /\ isReady' = FALSE
            /\ IF cfg.ownRedis
               THEN /\ hcalls' = [hcalls EXCEPT !.quit = @ + 1]
                    /\ status' = QuitStatus(status)
                    /\ closing' = (status # "end")
                    /\ dpc' = IF status = "end" THEN "rejected" ELSE "quitting"
               ELSE /\ dpc' = "done"
                    /\ UNCHANGED <<hcalls, status, closing>>
    /\ UNCHANGED <<cfg, stats, ops, store, now>>

\* QUIT is answered: the server closes the connection, destroy() returns.
destroyQuitDone ==
    /\ dpc = "quitting"
    /\ status = "ready"
    /\ dpc' = "done"
    /\ status' = "close"
    /\ UNCHANGED <<cfg, closing, isReady, isDestroyed, stats, ops, store, now, hcalls, calls>>

\* redis.quit() rejected: the catch block warns and disconnects by force.
destroyFallback ==
    /\ dpc \in {"quitting", "rejected"}
    /\ dpc' = "done"
    /\ hcalls' = [hcalls EXCEPT !.disconnect = @ + 1]
    /\ status' = DisconnectedStatus(status)
    /\ closing' = DisconnectedClosing(status)
    /\ UNCHANGED <<cfg, isReady, isDestroyed, stats, ops, store, now, calls>>

\* The forced disconnect throws: nothing in destroy() catches it.
destroyFallbackThrows ==
    /\ dpc \in {"quitting", "rejected"}
    /\ dpc' = "threw"
    /\ hcalls' = [hcalls EXCEPT !.disconnect = @ + 1]
    /\ UNCHANGED <<cfg, status, closing, isReady, isDestroyed, stats, ops, store, now, calls>>

----------------------------------------------------------------------------

\* A caller invokes one of the operations.
Invoke(R, S) == \E i \in S, r \in R : Start(i, r)

Next ==
    \/ Invoke(CoreRequests, {1})
    \/ AfterConnect(1)
    \/ AfterRefused(1)
    \/ Poll(1)
    \/ Issue(1)
    \/ RespondOk(1)
    \/ \E F \in SUBSET (1..3) : RespondPipe(1, F)
    \/ RespondFail(1)
    \/ Retire(1)
    \/ HandleReady
    \/ HandleClose
    \/ HandleError
    \/ HandleReconnecting
    \/ HandleRetry
    \/ HandleEnd
    \/ disconnect
    \/ destroy
    \/ destroyQuitDone
    \/ destroyFallback
    \/ destroyFallbackThrows

\* The adapter with its handle, callers and lifecycle: every operation kind,
\* operations in flight together, the handle's events, disconnect and destroy.
Spec == Init /\ [][Next]_vars

NextData ==
    \/ Invoke(Requests, {1})
    \/ AfterConnect(1)
    \/ Issue(1)
    \/ RespondOk(1)
    \/ \E F \in SUBSET (1..3) : RespondPipe(1, F)
    \/ RespondFail(1)
    \/ Retire(1)
    \/ HandleReady
    \/ Tick

\* The adapter over a connection that stays up: every input of every operation,
\* one operation after the other, time passing, store calls failing or not.
SpecData == InitData /\ [][NextData]_vars

\* Two operations of one command each.
ReadyRequests ==
    {Req("get", KA, <<>>, <<>>, Nil, NoTTL), Req("ping", Nil, <<>>, <<>>, Nil, NoTTL)}

\* A connection attempt of the handle ends: it becomes ready or it closes
\* (at the latest when the transport's connect timeout runs out).
ConnectSettles == status = "connecting" /\ (HandleReady \/ HandleClose)

NextReady ==
    \/ Invoke(ReadyRequests, {1})
    \/ AfterConnect(1)
    \/ AfterRefused(1)
    \/ Poll(1)
    \/ Issue(1)
    \/ RespondOk(1)
    \/ RespondFail(1)
    \/ Retire(1)
    \/ HandleReady
    \/ HandleClose
    \/ HandleError
    \/ HandleReconnecting
    \/ HandleRetry
    \/ HandleEnd
    \/ disconnect
    \/ destroy
    \/ destroyQuitDone
    \/ destroyFallback

\* The readiness check under the scheduling it runs on: timers fire, the
\* continuation of a settled promise runs, a connection attempt ends.
SpecReady ==
    /\ Init
    /\ [][NextReady]_vars
    /\ WF_vars(Poll(1))
    /\ WF_vars(AfterConnect(1))
    /\ WF_vars(AfterRefused(1))
    /\ WF_vars(ConnectSettles)

NextWait ==
    \/ \E timeout \in WaitTimeouts : waitUntilReady(1, timeout)
    \/ WaitCheck(1)
    \/ Invoke(ReadyRequests, {1})
    \/ AfterConnect(1)
    \/ AfterRefused(1)
    \/ Poll(1)
    \/ Issue(1)
    \/ RespondOk(1)
    \/ RespondFail(1)
    \/ Retire(1)
    \/ Tick
    \/ HandleReady
    \/ HandleClose
    \/ HandleError
    \/ HandleReconnecting
    \/ HandleRetry
    \/ HandleEnd
    \/ destroy
    \/ destroyQuitDone
    \/ destroyFallback

\* Callers waiting for readiness, between operations, while the handle and
\* the adapter live their lives: timers fire and time passes.
SpecWait ==
    /\ Init
    /\ [][NextWait]_vars
    /\ WF_vars(WaitCheck(1))
    /\ WF_vars(Tick)

NextConcurrent ==
    \/ Invoke(ReadyRequests, Slots)
    \/ \E i \in Slots : AfterConnect(i)
    \/ \E i \in Slots : AfterRefused(i)
    \/ \E i \in Slots : Poll(i)
    \/ \E i \in Slots : Issue(i)
    \/ \E i \in Slots : RespondOk(i)
    \/ \E i \in Slots : RespondFail(i)
    \/ \E i \in Slots : Retire(i)
    \/ HandleReady
    \/ HandleClose
    \/ HandleError
    \/ HandleReconnecting
    \/ HandleRetry
    \/ HandleEnd

\* Operations in flight at the same time: the timers of each readiness loop
\* fire and the continuation of each settled connect() runs.
SpecConcurrent ==
    /\ Init
    /\ [][NextConcurrent]_vars
    /\ \A i \in Slots : WF_vars(Poll(i)) /\ WF_vars(AfterConnect(i)) /\ WF_vars(AfterRefused(i))

NextProbe ==
    \/ \E kind \in Probes : StartProbe(1, kind)
    \/ AfterConnect(1)
    \/ AfterRefused(1)
    \/ Poll(1)
    \/ ProbeIssue(1)
    \/ ProbeRespondOk(1)
    \/ ProbeRespondFail(1)
    \/ Retire(1)
    \/ Tick
    \/ HandleReady
    \/ HandleClose
    \/ HandleError
    \/ HandleReconnecting
    \/ HandleRetry
    \/ HandleEnd
    \/ disconnect
    \/ destroy
    \/ destroyQuitDone
    \/ destroyFallback

\* The adapter probed: health and statistics calls in every state of the
\* handle and of the adapter's life, time passing while they wait.
SpecProbe == Init /\ [][NextProbe]_vars

----------------------------------------------------------------------------
(* Properties *)

Mentions(err, part) == \E j \in DOMAIN err : err[j] = part

\* C1: an operation invoked after destroy() fails with an error that mentions
\* the destruction, whatever its kind and whatever the handle's status, and
\* sends no command to the store.
RejectedAfterDestroy ==
    \A i \in Slots :
        ops[i].afterDestroy =>
            /\ ops[i].pc = "done"
            /\ ops[i].err = OperationFailed(ops[i].kind, DestroyedError)
            /\ Mentions(ops[i].err, "Adapter has been destroyed")
            /\ ops[i].cmds = <<>>

\* A batch delete invoked on a destroyed adapter whose supplied handle is still ready.
RejectedAfterDestroyWitness ==
    /\ ops[1].afterDestroy
    /\ ops[1].kind = "deleteMany"
    /\ ops[1].keys # <<>>
    /\ status = "ready"

\* C2: a destroy() call on an adapter that is already destroyed, the first call
\* having returned or still awaiting the shutdown, changes nothing of the
\* adapter and calls neither quit nor disconnect on the handle.
DestroyIdempotent ==
    [][(isDestroyed /\ calls'.destroy = calls.destroy + 1)
         => UNCHANGED <<cfg, status, closing, isReady, isDestroyed, stats, ops, dpc, store, now, hcalls>>]_vars

\* The second destroy() was made while the first was awaiting redis.quit().
DestroyIdempotentWitness ==
    /\ calls.destroy = 2
    /\ dpc = "quitting"
    /\ hcalls.quit = 1
    /\ hcalls.disconnect = 0

\* C3: on a supplied handle, destroy() and disconnect() call neither quit nor
\* disconnect: the handle's status and its closing flag are what they were.
SuppliedHandleUntouched ==
    [][(~cfg.ownRedis /\ calls' # calls)
         => (status' = status /\ closing' = closing /\ hcalls' = hcalls
             /\ hcalls.quit = 0 /\ hcalls.disconnect = 0)]_vars

\* A supplied handle that is ready after both destroy() and disconnect().
SuppliedHandleUntouchedWitness ==
    /\ ~cfg.ownRedis
    /\ isDestroyed
    /\ calls.disconnect = 1
    /\ status = "ready"
    /\ ~closing

Done(o) == o.pc = "done"

Piped(o) == \E j \in DOMAIN o.cmds : o.cmds[j].pipe

\* C4: with a keyPrefix configured, clear() leaves every key outside the
\* prefix in the store.
ClearKeepsOtherKeys ==
    [][\A i \in Slots :
          (cfg.keyPrefix # NoPrefix /\ ops[i].kind = "clear" /\ ~Done(ops[i]) /\ Done(ops'[i]))
            => \A k \in DOMAIN store : ~IsPrefixOf(cfg.keyPrefix, k) => k \in DOMAIN store']_vars

\* C5: an operation one of whose pipelined commands failed is not reported
\* as successful.
CommandFailureSurfaces ==
    \A i \in Slots :
        (Done(ops[i]) /\ ops[i].err = <<>> /\ Piped(ops[i]))
            => \A j \in DOMAIN ops[i].got : ~ops[i].got[j].err

\* A get that the store answered, having found an entry written with a ttl.
ReadOfTtlWrite(o) ==
    Done(o) /\ o.kind = "get" /\ o.err = <<>> /\ o.saw.has /\ o.saw.e.ms > 0

\* C6, as claimed: a get right after a set with a ttl returns the value, and a
\* get once ttl milliseconds have passed since the set returns absent.
TtlReadBackAtTtl ==
    \A i \in Slots :
        ReadOfTtlWrite(ops[i]) =>
            /\ ops[i].at = ops[i].saw.e.at => ops[i].res = Written(ops[i].key)
            /\ ops[i].at >= ops[i].saw.e.at + ops[i].saw.e.ms => ops[i].res = Nil

\* C6, amended: the key lives for the ttl rounded up to whole seconds: a get
\* before that returns the value written, a get from then on returns absent.
TtlReadBack ==
    \A i \in Slots :
        ReadOfTtlWrite(ops[i]) =>
            IF ops[i].at < ops[i].saw.e.at + CeilDiv(ops[i].saw.e.ms, SecMs) * SecMs
            THEN ops[i].res = Written(ops[i].key)
            ELSE ops[i].res = Nil

\* A key set with a ttl of half a second, read as absent one second later.
TtlReadBackWitness ==
    /\ ReadOfTtlWrite(ops[1])
    /\ ops[1].saw.e.ms = TickMs
    /\ ops[1].at = ops[1].saw.e.at + SecMs
    /\ ops[1].res = Nil

\* C7: mget of a non-empty key list sends one MGET and returns, index by
\* index, the value stored under the key or absent.
MgetElementwise ==
    \A i \in Slots :
        LET o == ops[i]
        IN (Done(o) /\ o.kind = "mget" /\ o.keys # <<>> /\ o.err = <<>>) =>
            /\ Len(o.cmds) = 1
            /\ o.cmds[1].name = "MGET"
            /\ Len(o.res) = Len(o.keys)
            /\ \A j \in DOMAIN o.keys :
                 o.res[j] = IF Live(store, o.at, Prefixed(o.keys[j]))
                            THEN deserialize(store[Prefixed(o.keys[j])].val)
                            ELSE Nil

\* A list with a repeated key and a missing key: the same value twice and one absent.
MgetElementwiseWitness ==
    /\ Done(ops[1])
    /\ ops[1].kind = "mget"
    /\ ops[1].keys = <<KA, KB, KA>>
    /\ ops[1].err = <<>>
    /\ ops[1].res[1] # Nil
    /\ ops[1].res[2] = Nil
    /\ ops[1].res[3] = ops[1].res[1]

\* mget([]), mset([]) or deleteMany([]).
EmptyBatch(o) ==
    \/ o.kind \in {"mget", "deleteMany"} /\ o.keys = <<>>
    \/ o.kind = "mset" /\ o.ents = <<>>

\* What an empty batch returns: [] for mget, nothing for mset, false for deleteMany.
EmptyBatchReturned(o) ==
    /\ o.err = <<>>
    /\ IF o.kind = "deleteMany" THEN o.res = FALSE ELSE o.res = <<>>

\* The errors of ensureConnected, as executeCommand reports them.
ReadinessErrors(operation) ==
    {OperationFailed(operation, DestroyedError),
     OperationFailed(operation, ConnectionFailed(ConnectionClosed))}
      \cup {OperationFailed(operation, ConnectionFailed(ConnectionTimeout(st))) :
              st \in {"wait", "connecting", "close", "reconnecting", "end"}}

\* C8, as claimed: an empty batch on an adapter that is not destroyed returns
\* its empty result whether or not the store is connected or reachable.
EmptyBatchWhateverConnection ==
    \A i \in Slots :
        (Done(ops[i]) /\ EmptyBatch(ops[i]) /\ ~ops[i].afterDestroy) => EmptyBatchReturned(ops[i])

\* C8, amended: an empty batch issues no store command and leaves the store as
\* it is; it returns its empty result once the readiness check has passed, and
\* fails with the readiness check's error otherwise.
EmptyBatchNoCommand ==
    [][\A i \in Slots :
          EmptyBatch(ops'[i]) =>
              /\ ops'[i].cmds = <<>>
              /\ ops'[i].got = <<>>
              /\ ops'[i].pc \notin {"awaiting", "piping"}
              /\ ops'[i] # ops[i] => store' = store
              /\ (ops[i].pc = "checked" /\ ops'[i] # ops[i]) => Done(ops'[i]) /\ EmptyBatchReturned(ops'[i])
              /\ (Done(ops'[i]) /\ ops'[i].err # <<>>) =>
                     /\ ops[i].pc # "checked"
                     /\ ops'[i].err \in ReadinessErrors(ops'[i].kind)]_vars

\* deleteMany([]) returned false on a handle that had to connect first.
EmptyBatchNoCommandWitness ==
    /\ Done(ops[1])
    /\ ops[1].kind = "deleteMany"
    /\ ops[1].keys = <<>>
    /\ ops[1].err = <<>>
    /\ ops[1].res = FALSE
    /\ hcalls.connect > 0

RECURSIVE Flatten(_)
Flatten(ss) == IF ss = <<>> THEN <<>> ELSE Head(ss) \o Flatten(Tail(ss))

\* One chunk per command, in order, covering the listed keys exactly once.
DeleteManyCommands(o) ==
    /\ Flatten([c \in DOMAIN o.cmds |-> o.cmds[c].keys]) = [j \in DOMAIN o.keys |-> Prefixed(o.keys[j])]
    /\ \A c \in DOMAIN o.cmds :
         /\ o.cmds[c].name = "DEL"
         /\ Len(o.cmds[c].keys) <= ChunkSize
         /\ o.cmds[c].pipe = (Len(o.keys) > ChunkSize)
    /\ Len(o.keys) <= ChunkSize => Len(o.cmds) = 1

\* C9: a deleteMany of a non-empty list that returns has removed every listed
\* key that existed and returns true iff it removed one; above 100 keys it sent
\* consecutive chunks of at most 100 keys in one pipeline, otherwise one DEL.
DeleteManyRemovesAll ==
    [][\A i \in Slots :
          LET o == ops'[i]
              listed == {Prefixed(o.keys[j]) : j \in DOMAIN o.keys}
          IN (~Done(ops[i]) /\ Done(o) /\ o.kind = "deleteMany" /\ o.keys # <<>> /\ o.err = <<>>) =>
              /\ \A k \in listed : ~Live(store', now, k)
              /\ o.res = (\E k \in listed : Live(store, now, k))
              /\ DeleteManyCommands(o)]_vars

\* C10: a get of a key that is not in the store, or is past its expiry,
\* returns absent without an error and counts as a successful command.
GetAbsentSoft ==
    [][\A i \in Slots :
          (/\ ops[i].kind = "get"
           /\ ops[i].pc = "awaiting"
           /\ ops'[i].got # <<>>
           /\ ~Live(store, now, ops[i].cmds[1].keys[1]))
            => /\ Done(ops'[i])
               /\ ops'[i].err = <<>>
               /\ ops'[i].res = Nil
               /\ stats'.commands.successful = stats.commands.successful + 1
               /\ stats'.commands.failed = stats.commands.failed]_vars

\* A get of a key that had expired.
GetAbsentSoftWitness ==
    /\ Done(ops[1])
    /\ ops[1].kind = "get"
    /\ ops[1].err = <<>>
    /\ ops[1].res = Nil
    /\ ops[1].saw.has
    /\ stats.commands.successful = 2

\* Slot i goes from idle to an operation in this step.
Starts(i) == ops[i].pc = "idle" /\ ops'[i].pc # "idle"

\* C11: after disconnect() has closed an owned handle the adapter is reusable:
\* an operation issued afterwards finds the connection ready or establishes it
\* again, it is not left waiting on a handle that stays closed.
DisconnectLeavesReusable ==
    [][\A i \in Slots :
          (Starts(i) /\ cfg.ownRedis /\ hcalls.disconnect > 0 /\ calls.destroy = 0)
            => ops'[i].pc \in {"checked", "connecting"}]_vars

\* The operation is inside ensureConnected.
InReadinessCheck(o) == o.pc \in {"connecting", "connected", "refused", "polling"}

\* C12, as claimed: a readiness check that fails on an adapter that is not
\* destroyed fails with the connection-timeout error, after the 50 polls.
ReadinessFailureIsTimeout ==
    \A i \in Slots :
        (Done(ops[i]) /\ ~ops[i].afterDestroy /\ Mentions(ops[i].err, "Connection failed:"))
            => /\ Mentions(ops[i].err, "Connection timeout. Status:")
               /\ ops[i].att = MaxAttempts

\* C12, amended: the readiness check always ends.  It fails at once on a
\* destroyed adapter, passes only on a ready handle, fails with the cause of
\* the rejected connect() when the first connection attempt fails, and
\* otherwise fails with the connection timeout at the 50th poll.
ReadinessCheckTerminates ==
    /\ [][\A i \in Slots :
            /\ ops'[i].att <= MaxAttempts
            /\ ops'[i].pc = "polling" => ops'[i].att < MaxAttempts
            /\ (Starts(i) /\ isDestroyed) =>
                  Done(ops'[i]) /\ ops'[i].err = OperationFailed(ops'[i].kind, DestroyedError)
            /\ (ops[i].pc # "checked" /\ ops'[i].pc = "checked") => status = "ready"
            /\ (ops[i].pc = "refused" /\ Done(ops'[i])) =>
                  /\ ops'[i].err = OperationFailed(ops'[i].kind, ConnectionFailed(ConnectionClosed))
                  /\ ops'[i].att = 0
            /\ (ops[i].pc = "polling" /\ Done(ops'[i])) =>
                  /\ ops'[i].err = OperationFailed(ops'[i].kind, ConnectionFailed(ConnectionTimeout(status)))
                  /\ status # "ready"
                  /\ ops'[i].att = MaxAttempts]_vars
    /\ \A i \in Slots : InReadinessCheck(ops[i]) ~> ~InReadinessCheck(ops[i])

\* An operation that polled to the end of its budget and failed with the timeout.
ReadinessCheckTerminatesWitness ==
    /\ Done(ops[1])
    /\ ops[1].att = MaxAttempts
    /\ Mentions(ops[1].err, "Connection timeout. Status:")

\* The error thrown inside executeCommand's try by the step that ends operation o.
CauseThrown(o) ==
    CASE o.pc = "idle" -> DestroyedError
      [] o.pc = "refused" -> ConnectionFailed(ConnectionClosed)
      [] o.pc = "polling" -> ConnectionFailed(ConnectionTimeout(status))
      [] OTHER -> StoreError

EndsWith(msg, part) ==
    /\ Len(msg) >= Len(part)
    /\ SubSeq(msg, Len(msg) - Len(part) + 1, Len(msg)) = part

\* C13: the error of a failed operation starts with the adapter's tag, names
\* the operation next and carries the text of the cause unchanged.
ErrorsCarryContext ==
    [][\A i \in Slots :
          (~Done(ops[i]) /\ Done(ops'[i]) /\ ops'[i].kind \notin Probes /\ ops'[i].err # <<>>)
            => /\ ops'[i].err[1] = AdapterTag
               /\ ops'[i].err[2] = ops'[i].kind
               /\ EndsWith(ops'[i].err, CauseThrown(ops[i]))]_vars

\* A get whose store call was rejected.
ErrorsCarryContextWitness ==
    /\ Done(ops[1])
    /\ ops[1].kind = "get"
    /\ ops[1].cmds # <<>>
    /\ ops[1].err = <<AdapterTag, "get", "failed:">> \o StoreError

\* C14: isHealthy, getHealthStatus and getStatistics never throw; a probe whose
\* readiness check or store call failed returns false, a snapshot that is not
\* healthy, has no latency and carries the error, or the statistics without memory.
ProbesNeverThrow ==
    [][\A i \in Slots :
          LET o == ops'[i]
          IN (~Done(ops[i]) /\ Done(o) /\ o.kind \in Probes) =>
               /\ o.err = <<>>
               /\ (o.got = <<>> /\ o.kind = "isHealthy") => o.res = FALSE
               /\ (o.got = <<>> /\ o.kind = "getHealthStatus") =>
                     /\ ~o.res.healthy
                     /\ ~o.res.hasLatency
                     /\ o.res.error = CauseThrown(ops[i])
               /\ (o.got = <<>> /\ o.kind = "getStatistics") =>
                     /\ ~o.res.hasMemory
                     /\ ~o.res.connected
                     /\ o.res.commands = stats'.commands
                     /\ o.res.operations = stats'.operations
                     /\ o.res.readyState = status']_vars

\* A health snapshot taken on a handle that had ended: not healthy, no
\* latency, the timeout as its error.
ProbesNeverThrowWitness ==
    /\ Done(ops[1])
    /\ ops[1].kind = "getHealthStatus"
    /\ ops[1].err = <<>>
    /\ ~ops[1].res.healthy
    /\ ~ops[1].res.hasLatency
    /\ ops[1].res.error = ConnectionFailed(ConnectionTimeout("end"))

\* C15: isHealthy returns true exactly when the readiness check passed, the
\* ping was answered with PONG on the ready connection and the answer came
\* less than 1000 ms after the ping was sent; otherwise it returns false.
IsHealthyIff ==
    [][\A i \in Slots :
          LET o == ops'[i]
          IN (~Done(ops[i]) /\ Done(o) /\ o.kind = "isHealthy") =>
               /\ o.res = (/\ ops[i].pc = "awaiting"
                           /\ o.got = <<"PONG">>
                           /\ now - ops[i].at < LatencyLimit)
               /\ o.got # <<>> => status = "ready" /\ ~ops[i].afterDestroy]_vars

\* A ping answered with PONG, but too late: not healthy.
IsHealthyIffWitness ==
    /\ Done(ops[1])
    /\ ops[1].kind = "isHealthy"
    /\ ops[1].got = <<"PONG">>
    /\ ops[1].res = FALSE

\* C16: destroy() never ends by throwing: an error of the graceful quit leads
\* to the forced disconnect, and an error of the forced disconnect is swallowed.
DestroyNeverThrows == dpc # "threw"

\* The commands that take keys, sent for get, set, delete, exists, mget, mset and deleteMany.
KeyCommands == {"GET", "SET", "SETEX", "DEL", "EXISTS", "MGET", "MSET"}

KeyOperations == {"get", "set", "delete", "exists", "mget", "mset", "deleteMany"}

\* C17: with a keyPrefix configured, every key that reaches the store for
\* get, set, delete, exists, mget, mset and deleteMany starts with that prefix,
\* on a handle the adapter created and on a supplied one.
KeysNamespaced ==
    \A i \in Slots :
        (cfg.keyPrefix # NoPrefix /\ ops[i].kind \in KeyOperations) =>
            \A c \in DOMAIN ops[i].cmds :
                ops[i].cmds[c].name \in KeyCommands =>
                    \A k \in DOMAIN ops[i].cmds[c].keys :
                        IsPrefixOf(cfg.keyPrefix, ops[i].cmds[c].keys[k])

\* C18: set and mset write with an expiration exactly when the ttl passed, or
\* the default TTL if none was passed, is greater than 0; an explicit 0 writes
\* without expiration whatever the default.
TtlResolution ==
    \A i \in Slots :
        LET o == ops[i]
            effective == IF o.ttl # NoTTL THEN o.ttl ELSE cfg.defaultTTL
        IN (o.kind \in {"set", "mset"} /\ o.cmds # <<>>) =>
             \A c \in DOMAIN o.cmds :
                IF effective > 0
                THEN o.cmds[c].name = "SETEX" /\ o.cmds[c].sec = CeilDiv(effective, SecMs)
                ELSE o.cmds[c].name = (IF o.kind = "set" THEN "SET" ELSE "MSET")

\* An mset with an explicit ttl of 0 under a default TTL: one plain MSET.
TtlResolutionWitness ==
    /\ Done(ops[1])
    /\ ops[1].kind = "mset"
    /\ ops[1].ttl = 0
    /\ cfg.defaultTTL > 0
    /\ ops[1].err = <<>>
    /\ Len(ops[1].cmds) = 1
    /\ ops[1].cmds[1].name = "MSET"

\* The command counters move by these amounts in the step.
Counted(total, successful, failed) ==
    /\ stats'.commands.total = stats.commands.total + total
    /\ stats'.commands.successful = stats.commands.successful + successful
    /\ stats'.commands.failed = stats.commands.failed + failed

\* C19: an operation adds one to commands.total in the step that starts it and
\* one to commands.successful or to commands.failed in the step that ends it,
\* successful if it returns and failed if it throws; its other steps leave the
\* three counters alone.
CountedOnce ==
    [][\A i \in Slots :
          (ops'[i] # ops[i] /\ ops'[i].kind \notin Probes /\ ops[i].kind \notin Probes) =>
              CASE Starts(i) /\ ~Done(ops'[i]) -> Counted(1, 0, 0)
                [] Starts(i) /\ Done(ops'[i]) -> ops'[i].err # <<>> /\ Counted(1, 0, 1)
                [] ~Starts(i) /\ ~Done(ops[i]) /\ Done(ops'[i]) ->
                      IF ops'[i].err = <<>> THEN Counted(0, 1, 0) ELSE Counted(0, 0, 1)
                [] OTHER -> Counted(0, 0, 0)]_vars

\* Two operations have run: one returned, one threw.
CountedOnceWitness ==
    /\ Done(ops[1])
    /\ stats.commands.total = 2
    /\ stats.commands.successful = 1
    /\ stats.commands.failed = 1
    /\ stats.connection.errors = 0

\* C20: destroyed is terminal: after destroy() the adapter's ready flag stays
\* cleared whatever the handle does, and no health snapshot taken from then on
\* reports the adapter connected.
DestroyedIsTerminal ==
    isDestroyed =>
        /\ ~isReady
        /\ \A i \in Slots :
              (Done(ops[i]) /\ ops[i].afterDestroy /\ ops[i].kind = "getHealthStatus")
                  => ~ops[i].res.connected

\* C21: an error event adds one to connection.errors and changes nothing
\* else, neither the status, the ready flag nor the command counters; a
\* reconnecting event adds one to connection.reconnects and leaves the ready
\* flag and the other counters alone.
EventsCountOnly ==
    [][/\ stats'.connection.errors # stats.connection.errors =>
             /\ stats' = [stats EXCEPT !.connection.errors = @ + 1]
             /\ status' = status
             /\ isReady' = isReady
             /\ isDestroyed' = isDestroyed
       /\ stats'.connection.reconnects # stats.connection.reconnects =>
             /\ stats' = [stats EXCEPT !.connection.reconnects = @ + 1]
             /\ isReady' = isReady
             /\ isDestroyed' = isDestroyed]_vars

\* What one invocation of an operation adds to the operation counters.
OperationCount(kind) ==
    [gets |-> IF kind = "get" THEN 1 ELSE 0,
     sets |-> IF kind = "set" THEN 1 ELSE 0,
     deletes |-> IF kind = "delete" THEN 1 ELSE 0,
     batch |-> IF kind \in {"mget", "mset", "deleteMany"} THEN 1 ELSE 0]

\* The operation counters move in the first step of the operation's own part,
\* by the amounts of its kind, and in no other step of the operation.
OperationCountedInOwnPart(i) ==
    (ops'[i] # ops[i] /\ ops'[i].kind \notin Probes /\ ops[i].kind \notin Probes) =>
        LET add == IF ops[i].pc = "checked" THEN OperationCount(ops[i].kind) ELSE OperationCount("none")
        IN /\ stats'.operations.gets = stats.operations.gets + add.gets
           /\ stats'.operations.sets = stats.operations.sets + add.sets
           /\ stats'.operations.deletes = stats.operations.deletes + add.deletes
           /\ stats'.operations.batch = stats.operations.batch + add.batch

\* The operation ends in this step.
Ends(i) == ~Done(ops[i]) /\ Done(ops'[i]) /\ ops'[i].kind \notin Probes

\* C22, as claimed: every invocation adds one to the counter of its kind
\* (gets, sets, deletes; batch for mget, mset, deleteMany, empty input
\* included; none for exists, clear, ping): no invocation ends without
\* having reached its counting step.
EveryInvocationCounted ==
    [][\A i \in Slots :
          /\ OperationCountedInOwnPart(i)
          /\ Ends(i) => ops[i].pc \in {"checked", "awaiting", "piping"}]_vars

\* C22, amended: an invocation that passes the readiness check adds one to the
\* counter of its kind, once; an invocation that the readiness check rejects
\* ends with that error and moves no operation counter.
InvocationCountedAfterReadiness ==
    [][\A i \in Slots :
          /\ OperationCountedInOwnPart(i)
          /\ (Ends(i) /\ ops[i].pc \notin {"checked", "awaiting", "piping"}) =>
                ops'[i].err \in ReadinessErrors(ops'[i].kind)]_vars

\* deleteMany([]) returned: the batch counter stands at one.
InvocationCountedAfterReadinessWitness ==
    /\ Done(ops[1])
    /\ ops[1].kind = "deleteMany"
    /\ ops[1].keys = <<>>
    /\ ops[1].err = <<>>
    /\ stats.commands.total = 1
    /\ stats.operations = [gets |-> 0, sets |-> 0, deletes |-> 0, batch |-> 1]

\* C23: an expiring write of effective TTL t > 0 ms carries a whole number of
\* seconds that is at least t and less than t + 1000 ms, and a key written
\* with TTL t is not read as absent before t ms have passed since the write.
TtlLifetime ==
    \A i \in Slots :
        /\ \A c \in DOMAIN ops[i].cmds :
              ops[i].cmds[c].name = "SETEX" =>
                  /\ ops[i].cmds[c].ms > 0
                  /\ ops[i].cmds[c].ms = (IF ops[i].ttl # NoTTL THEN ops[i].ttl ELSE cfg.defaultTTL)
                  /\ ops[i].cmds[c].sec * SecMs >= ops[i].cmds[c].ms
                  /\ ops[i].cmds[c].sec * SecMs - ops[i].cmds[c].ms < SecMs
        /\ (ReadOfTtlWrite(ops[i]) /\ ops[i].at < ops[i].saw.e.at + ops[i].saw.e.ms) =>
              /\ ops[i].res = Written(ops[i].key)
              /\ ops[i].saw.e.exp - ops[i].saw.e.at >= ops[i].saw.e.ms
              /\ ops[i].saw.e.exp - ops[i].saw.e.at - ops[i].saw.e.ms < SecMs

\* A key written for a second and a half, read a second later: still there.
TtlLifetimeWitness ==
    /\ ReadOfTtlWrite(ops[1])
    /\ ops[1].saw.e.ms = SecMs + TickMs
    /\ ops[1].at = ops[1].saw.e.at + SecMs
    /\ ops[1].res = Written(ops[1].key)

\* C24: the step of destroy() that starts the graceful quit has already marked
\* the adapter destroyed and cleared the ready flag, and an operation that
\* starts while the quit or its fallback is pending is rejected as destroyed
\* without a store command.
DestroyedBeforeQuit ==
    [][/\ (dpc = "idle" /\ dpc' # "idle") => isDestroyed' /\ ~isReady'
       /\ dpc' \in {"quitting", "rejected"} => isDestroyed'
       /\ \A i \in Slots :
             (Starts(i) /\ dpc \in {"quitting", "rejected"}) =>
                 /\ Done(ops'[i])
                 /\ ops'[i].err = OperationFailed(ops'[i].kind, DestroyedError)
                 /\ ops'[i].cmds = <<>>]_vars

\* An operation rejected as destroyed while the quit is still pending.
DestroyedBeforeQuitWitness ==
    /\ dpc = "quitting"
    /\ Done(ops[1])
    /\ ops[1].afterDestroy
    /\ ops[1].err = OperationFailed(ops[1].kind, DestroyedError)

\* C25: getHealthStatus and isHealthy are the same probe: a health snapshot is
\* healthy exactly when isHealthy returns true under the same behaviour of
\* the connection and the store, that is, when the ping was answered with
\* PONG less than 1000 ms after it was sent.
SameProbe ==
    [][\A i \in Slots :
          LET o == ops'[i]
          IN (~Done(ops[i]) /\ Done(o) /\ o.kind = "getHealthStatus") =>
               o.res.healthy = (/\ ops[i].pc = "awaiting"
                                /\ o.got = <<"PONG">>
                                /\ now - ops[i].sent < LatencyLimit)]_vars

\* The adapter as its constructor leaves it: a handle of its own not
\* connected, a supplied handle as it was, the ready flag saying whether
\* that one is ready; connect() not called.
AsConstructed ==
    /\ hcalls.connect = 0
    /\ IF cfg.ownRedis THEN status = "wait" /\ ~isReady
       ELSE isReady = (status = "ready")

\* connect() is called only by the operation or probe that starts on a
\* handle that has not connected yet.
ConnectOnlyByFirstUse ==
    hcalls'.connect # hcalls.connect => status = "wait" /\ \E i \in Slots : Starts(i)

\* C26, as claimed: construction connects nothing, and an owned handle stays
\* unconnected until an operation or a probe is invoked.
LazyUntilFirstOperation ==
    /\ AsConstructed
    /\ [][/\ ConnectOnlyByFirstUse
          /\ (cfg.ownRedis /\ status = "wait" /\ status' = "connecting") =>
                \E i \in Slots : Starts(i)]_vars

\* C26, amended: construction connects nothing, and an owned handle stays
\* unconnected until an operation or a probe is invoked or destroy() sends
\* its QUIT, which connects the handle to be sent.
LazyUntilUsed ==
    /\ AsConstructed
    /\ [][/\ ConnectOnlyByFirstUse
          /\ (cfg.ownRedis /\ status = "wait" /\ status' = "connecting") =>
                \/ \E i \in Slots : Starts(i)
                \/ hcalls'.quit = hcalls.quit + 1 /\ calls'.destroy = calls.destroy + 1]_vars

\* The first operation on an owned handle has called connect().
LazyUntilUsedWitness ==
    /\ cfg.ownRedis
    /\ status = "connecting"
    /\ hcalls = [connect |-> 1, quit |-> 0, disconnect |-> 0]
    /\ stats.commands.total = 1
    /\ ops[1].pc = "connecting"

\* C27: waitUntilReady always settles.  It resolves only in a step in which
\* the handle is ready and the adapter not destroyed, and it rejects only
\* once more than its timeout has passed, with the timeout error.
WaitSettles ==
    /\ [][\A i \in Slots :
            (~Done(ops[i]) /\ Done(ops'[i]) /\ ops'[i].kind = "waitUntilReady") =>
                IF ops'[i].err = <<>>
                THEN status = "ready" /\ ~isDestroyed
                ELSE /\ now - ops'[i].at > ops'[i].timeout
                     /\ ops'[i].err = WaitTimeoutError(status)
                     /\ status # "ready" \/ isDestroyed]_vars
    /\ \A i \in Slots : (ops[i].pc = "waiting") ~> (ops[i].pc # "waiting")

\* A wait on a ready handle of a destroyed adapter: rejected with the timeout.
WaitSettlesWitness ==
    /\ Done(ops[1])
    /\ ops[1].kind = "waitUntilReady"
    /\ isDestroyed
    /\ ops[1].err = WaitTimeoutError("ready")

\* C28: successful + failed never exceeds total, and the two add up to total
\* whenever no operation is in flight, whatever the handle does meanwhile.
CountersAddUp ==
    /\ stats.commands.successful + stats.commands.failed <= stats.commands.total
    /\ (\A i \in Slots : ops[i].pc \in {"idle", "done"}) =>
          stats.commands.successful + stats.commands.failed = stats.commands.total

\* C29: once destroy() has been called no operation sends a command to the
\* store any more, those started before destroy() included.
NoCommandAfterDestroy ==
    [][\A i \in Slots : Len(ops'[i].cmds) > Len(ops[i].cmds) => ~isDestroyed]_vars

AwaitsReadiness(o) == o.pc \in {"connected", "polling"}

\* C30, as claimed: all the operations issued on a handle that has not
\* connected yet proceed once it is ready: when an adapter-created handle
\* becomes ready for the first time, none of them has failed in its readiness
\* check.
AllProceedOnceReady ==
    [][(cfg.ownRedis /\ ~isReady /\ stats.connection.reconnects = 0
            /\ status = "connecting" /\ status' = "ready") =>
          \A i \in Slots : ~(Done(ops[i]) /\ ops[i].err \in ReadinessErrors(ops[i].kind))]_vars

\* C30: connect() is called on the handle at most once, by the operation that
\* found it unconnected; an operation invoked while it is connecting or
\* reconnecting only polls; and an operation that looks at a ready handle at
\* the end of its wait proceeds, which each waiting operation does while the
\* handle stays ready.
ConnectOnce ==
    /\ [](hcalls.connect <= 1)
    /\ [](Cardinality({i \in Slots : ops[i].pc = "connecting"}) <= 1)
    /\ [][\A i \in Slots :
            /\ (Starts(i) /\ status = "wait") =>
                  hcalls.connect = 0 /\ hcalls'.connect = 1 /\ ops'[i].pc = "connecting"
            /\ (Starts(i) /\ status \notin {"wait", "ready"}) =>
                  hcalls' = hcalls /\ status' = status /\ ops'[i].pc = "polling"
            /\ (AwaitsReadiness(ops[i]) /\ ops'[i] # ops[i] /\ status = "ready") =>
                  ops'[i].pc = "checked"]_vars
    /\ \A i \in Slots :
          (AwaitsReadiness(ops[i]) /\ status = "ready") ~>
              (~AwaitsReadiness(ops[i]) \/ status # "ready")

\* Two operations in flight on a handle the first of them connected, the
\* second having polled, both with their command sent.
ConnectOnceWitness ==
    /\ cfg.ownRedis
    /\ hcalls.connect = 1
    /\ ops[1].pc = "awaiting"
    /\ ops[2].pc = "awaiting"
    /\ ops[2].att > 0
    /\ ops[1].att = 0

\* C31: the ready flag is true only if the status of the handle is 'ready':
\* it is false while the handle is closed, reconnecting or ended.
ReadyFlagFollowsStatus == isReady => status = "ready"

\* An entry the adapter wrote: one written after the start, or with a ttl.
WrittenThroughAdapter(e) == e.at > 0 \/ e.ms > 0

ClearCompleted(i) ==
    /\ cfg.keyPrefix # NoPrefix
    /\ ops[i].kind = "clear"
    /\ ~Done(ops[i])
    /\ Done(ops'[i])
    /\ ops'[i].err = <<>>
    /\ Piped(ops'[i]) => \A j \in DOMAIN ops'[i].got : ~ops'[i].got[j].err

\* C32: when clear() completes on an adapter with a keyPrefix, every key
\* written through the adapter before is gone from the store (get finds it
\* absent, exists false), on an owned and on a supplied handle.
ClearRemovesWritten ==
    [][\A i \in Slots :
          ClearCompleted(i) =>
              \A k \in DOMAIN store' :
                  ~(WrittenThroughAdapter(store'[k]) /\ Live(store', now, k))]_vars

====
